---- MODULE Spec2Model ----
(***************************************************************************)
(* Model of the upload endpoint of src/spotify.py: the route '/' behind    *)
(* the "10 per minute" limit, index(), allowed_file() and                  *)
(* handle_uploaded_file(), run by several requests at once over one        *)
(* working directory.                                                      *)
(*                                                                         *)
(* A string is a sequence of one-character strings.  Each action is one    *)
(* step of a request between two points where another request may run:    *)
(* the limiter, the validation, csv_file.save, main and os.remove.         *)
(***************************************************************************)
EXTENDS Naturals, Sequences, FiniteSets

\* ------------------------------------------------------------------ bounds
\* Requests in flight at once.
NReq == 2
\* Longest file name drawn by the validation specification SpecV.
MaxNameLen == 5
\* Requests the limiter still counts once the window is full.
MaxOver == 1
\* Requests in flight at once in the specification with fairness, SpecFair.
NFair == 1

Req == 1..NReq

ReqF == 1..NFair

\* --------------------------------------------------------- program values
\* @limiter.limit("10 per minute") on the route '/'.
RouteLimit == 10
\* Limiter(app, default_limits=["200 per day", "50 per hour"]): the limits of
\* the routes that carry no limit of their own.  The route '/' carries one,
\* which stands in their place.
DayLimit == 200
HourLimit == 50

ALLOWED_EXTENSIONS == {<<"c", "s", "v">>}

MsgNoFile == "No file selected"
MsgInvalid == "Invalid file format. Please upload a CSV file."
MsgGeneric == "An error occurred while processing the file. Please try again."
\* The text carried by an error that main raises.
MainErrText == "could not convert string to float"

\* Exception types that are ValueError or a subclass of it.
ValueErrors == {"ValueError", "UnicodeDecodeError"}
\* What main can raise: the CSV and the network decide.
MainRaises == {"ValueError", "UnicodeDecodeError", "ConnectionError"}

\* --------------------------------------------------------------- strings
Chars == {"c", "s", "v", "C", ".", "/", " "}

\* str.lower on the characters of the model
LowerChar(ch) == IF ch = "C" THEN "c" ELSE ch

Lower(s) == [i \in 1..Len(s) |-> LowerChar(s[i])]

Contains(s, ch) == \E i \in 1..Len(s) : s[i] = ch

\* filename.rsplit('.', 1)[1]: the text after the last '.'
RSplitDot1(s) ==
    LET i == CHOOSE k \in 1..Len(s) :
                 s[k] = "." /\ \A j \in (k + 1)..Len(s) : s[j] # "."
    IN  SubSeq(s, i + 1, Len(s))

\* allowed_file without the .lower()
allowed_file_case_sensitive(filename) ==
    Contains(filename, ".") /\ RSplitDot1(filename) \in ALLOWED_EXTENSIONS

allowed_file(filename) ==
    Contains(filename, ".") /\ Lower(RSplitDot1(filename)) \in ALLOWED_EXTENSIONS

\* secure_filename, step 1: every path separator becomes a blank
ReplaceSep(s) == [i \in 1..Len(s) |-> IF s[i] = "/" THEN " " ELSE s[i]]

\* secure_filename, step 2: "_".join(s.split())
RECURSIVE SplitJoin(_, _, _)
SplitJoin(s, acc, pending) ==
    IF s = <<>> THEN acc
    ELSE IF Head(s) = " " THEN SplitJoin(Tail(s), acc, acc # <<>>)
    ELSE SplitJoin(Tail(s),
                   (IF pending THEN Append(acc, "_") ELSE acc) \o <<Head(s)>>,
                   FALSE)

\* secure_filename, step 3: .strip("._")
RECURSIVE LStrip(_)
LStrip(s) ==
    IF s # <<>> /\ Head(s) \in {".", "_"} THEN LStrip(Tail(s)) ELSE s

RECURSIVE RStrip(_)
RStrip(s) ==
    IF s # <<>> /\ s[Len(s)] \in {".", "_"}
    THEN RStrip(SubSeq(s, 1, Len(s) - 1))
    ELSE s

secure_filename(s) == RStrip(LStrip(SplitJoin(ReplaceSep(s), <<>>, FALSE)))

\* ---------------------------------------------------------------- inputs
NoFilePart == [has_file |-> FALSE, filename |-> <<>>]
FilePart(name) == [has_file |-> TRUE, filename |-> name]

\* The uploads of the concurrent specification: no file part, an empty file
\* name, a wrong extension, and two accepted names that secure_filename
\* stores under the same path.
Filenames ==
    { <<>>,
      <<"c", ".", "c", "s">>,
      <<"c", ".", "C", "s", "v">>,
      <<"/", "c", ".", "C", "s", "v">> }

Uploads == {NoFilePart} \cup {FilePart(n) : n \in Filenames}

\* Every file name of at most MaxNameLen characters.
AllNames == UNION {[1..n -> Chars] : n \in 0..MaxNameLen}

AllUploads == {NoFilePart} \cup {FilePart(n) : n \in AllNames}

\* ----------------------------------------------------------------- state
VARIABLES
    pc,           \* where each request stands
    method,       \* request.method
    upload,       \* request.files.get('file')
    filename,     \* the local filename of handle_uploaded_file
    artists_data, \* TRUE once main has returned its result
    resp,         \* the response returned by the view
    flashed,      \* the message passed to flash(), "" when none
    failed,       \* the kind of failure the request ended in, "none" otherwise
    log,          \* the stages the request has passed, in order
    fs,           \* the working directory: path -> the request whose upload it holds
    hits,         \* the limiter's counter of the current one-minute window
                  \* (the limiter keys by client; every request of the model
                  \* comes from the same client)
    admitted,     \* requests the limiter let through in the current window
    CLIENT_ID,    \* os.getenv("SPOTIFY_CLIENT_ID")
    CLIENT_SECRET, \* os.getenv("SPOTIFY_CLIENT_SECRET")
    calls,        \* the calls each request has made to csv_file.save, main and
                  \* os.remove, with their arguments, in order
    hour_admitted, \* requests admitted in the current hour (counted in SpecL)
    hour_minutes  \* one-minute windows that have ended in the current hour

\* the module-level credentials
creds == <<CLIENT_ID, CLIENT_SECRET>>

\* the hour's bookkeeping
hourv == <<hour_admitted, hour_minutes>>

vars == <<pc, method, upload, filename, artists_data, resp, flashed, failed,
          log, fs, hits, admitted, CLIENT_ID, CLIENT_SECRET, calls,
          hour_admitted, hour_minutes>>

\* The values the environment holds when the module is loaded.
EnvClientId == "env SPOTIFY_CLIENT_ID"
EnvClientSecret == "env SPOTIFY_CLIENT_SECRET"

\* One call of a request: the operation, the path it is given and its other
\* arguments.
Call(op, path, args) == [op |-> op, path |-> path, args |-> args]

Init ==
    /\ pc = [r \in Req |-> "idle"]
    /\ method = [r \in Req |-> "GET"]
    /\ upload = [r \in Req |-> NoFilePart]
    /\ filename = [r \in Req |-> <<>>]
    /\ artists_data = [r \in Req |-> FALSE]
    /\ resp = [r \in Req |-> "none"]
    /\ flashed = [r \in Req |-> ""]
    /\ failed = [r \in Req |-> "none"]
    /\ log = [r \in Req |-> <<>>]
    /\ fs = <<>>
    /\ hits = 0
    /\ admitted = 0
    /\ CLIENT_ID = EnvClientId
    /\ CLIENT_SECRET = EnvClientSecret
    /\ calls = [r \in Req |-> <<>>]
    /\ hour_admitted = 0
    /\ hour_minutes = 0

\* ------------------------------------------------------------ file system
Exists(p) == p \in DOMAIN fs

\* csv_file.save(p) by request r: creates or truncates p
Written(p, r) == [q \in DOMAIN fs \cup {p} |-> IF q = p THEN r ELSE fs[q]]

\* os.remove(p)
Removed(p) == [q \in DOMAIN fs \ {p} |-> fs[q]]

\* ---------------------------------------------------------------- limiter
\* the limiter counts the request ...
Hit(count) == count + 1

\* a limiter that admits one request too many
WithinLimitOffByOne(count) == count <= RouteLimit + 1

\* ... and admits it while the count stays within "10 per minute"
WithinLimit(count) == count <= RouteLimit

\* ------------------------------------------------------------------ index
\* index() with the except Exception clause tried first
FlashGenericOnly(type, text) == MsgGeneric

\* The except clauses of index(): a ValueError is flashed with its own text,
\* any other Exception with the generic message; both fall through to the
\* redirect.
FlashFor(type, text) == IF type \in ValueErrors THEN text ELSE MsgGeneric

\* index() returning the results page from the except clauses
CaughtNoRedirect(r, type, text, kind) ==
    /\ flashed' = [flashed EXCEPT ![r] = FlashFor(type, text)]
    /\ resp' = [resp EXCEPT ![r] = "results.html"]
    /\ failed' = [failed EXCEPT ![r] = kind]
    /\ log' = [log EXCEPT ![r] = Append(@, "Failed")]
    /\ pc' = [pc EXCEPT ![r] = "done"]

\* index() without its except clauses: the exception leaves the view
Uncaught(r, type, text, kind) ==
    /\ failed' = [failed EXCEPT ![r] = kind]
    /\ log' = [log EXCEPT ![r] = Append(@, "Failed")]
    /\ pc' = [pc EXCEPT ![r] = "crashed"]
    /\ UNCHANGED <<flashed, resp>>

Caught(r, type, text, kind) ==
    /\ flashed' = [flashed EXCEPT ![r] = FlashFor(type, text)]
    /\ resp' = [resp EXCEPT ![r] = "redirect"]
    /\ failed' = [failed EXCEPT ![r] = kind]
    /\ log' = [log EXCEPT ![r] = Append(@, "Failed")]
    /\ pc' = [pc EXCEPT ![r] = "done"]

\* A request arrives in a free slot.
Arrive(r, methods) ==
    /\ pc[r] \in {"idle", "done"}
    /\ \E m \in methods : method' = [method EXCEPT ![r] = m]
    /\ upload' = [upload EXCEPT ![r] = NoFilePart]
    /\ pc' = [pc EXCEPT ![r] = "gate"]
    /\ filename' = [filename EXCEPT ![r] = <<>>]
    /\ artists_data' = [artists_data EXCEPT ![r] = FALSE]
    /\ resp' = [resp EXCEPT ![r] = "none"]
    /\ flashed' = [flashed EXCEPT ![r] = ""]
    /\ failed' = [failed EXCEPT ![r] = "none"]
    /\ log' = [log EXCEPT ![r] = <<>>]
    /\ calls' = [calls EXCEPT ![r] = <<>>]
    /\ UNCHANGED <<fs, hits, admitted, creds, hourv>>

\* The limiter's check of one request against "10 per minute".
LimiterHit(r) ==
    /\ pc[r] = "gate"
    /\ hits < RouteLimit + MaxOver
    /\ hits' = Hit(hits)
    /\ \/ /\ WithinLimit(Hit(hits))
          /\ admitted' = admitted + 1
          /\ pc' = [pc EXCEPT ![r] = "index"]
          /\ log' = [log EXCEPT ![r] = Append(@, "RateChecked")]
          /\ UNCHANGED <<resp, failed>>
       \/ /\ ~WithinLimit(Hit(hits))
          /\ admitted' = admitted
          /\ pc' = [pc EXCEPT ![r] = "done"]
          /\ resp' = [resp EXCEPT ![r] = "429"]
          /\ failed' = [failed EXCEPT ![r] = "RateLimited"]
          /\ log' = [log EXCEPT ![r] = Append(@, "Failed")]
    /\ UNCHANGED <<method, upload, filename, artists_data, flashed, fs, creds,
                   calls>>

\* a limiter that records the denial and lets the view run all the same
LimitDeniedRunsBody(r) ==
    /\ pc[r] = "gate"
    /\ hits < RouteLimit + MaxOver
    /\ hits' = Hit(hits)
    /\ pc' = [pc EXCEPT ![r] = "index"]
    /\ log' = [log EXCEPT ![r] = Append(@, "RateChecked")]
    /\ IF WithinLimit(Hit(hits))
       THEN admitted' = admitted + 1 /\ UNCHANGED <<resp, failed>>
       ELSE /\ admitted' = admitted
            /\ resp' = [resp EXCEPT ![r] = "429"]
            /\ failed' = [failed EXCEPT ![r] = "RateLimited"]
    /\ UNCHANGED <<method, upload, filename, artists_data, flashed, fs, creds,
                   calls, hourv>>

\* a limit that is applied to POST only
LimitExemptsGet(r) ==
    \/ method[r] = "POST" /\ LimiterHit(r) /\ UNCHANGED hourv
    \/ /\ method[r] = "GET"
       /\ pc[r] = "gate"
       /\ pc' = [pc EXCEPT ![r] = "index"]
       /\ log' = [log EXCEPT ![r] = Append(@, "RateChecked")]
       /\ UNCHANGED <<method, upload, filename, artists_data, resp, flashed,
                      failed, fs, hits, admitted, creds, calls, hourv>>

\* @limiter.limit("10 per minute"): runs before the body of index().
Limit(r) == LimiterHit(r) /\ UNCHANGED hourv

\* The limiter's counter of the window is dropped.
WindowReset ==
    /\ hits > 0
    /\ hits' = 0
    /\ admitted' = 0
    /\ UNCHANGED <<pc, method, upload, filename, artists_data, resp, flashed,
                   failed, log, fs, creds, calls>>

\* The one-minute window of the limit ends.
WindowExpires == WindowReset /\ UNCHANGED hourv

\* index() on a GET: render_template('index.html')
IndexGet(r) ==
    /\ pc[r] = "index"
    /\ method[r] = "GET"
    /\ resp' = [resp EXCEPT ![r] = "index.html"]
    /\ pc' = [pc EXCEPT ![r] = "done"]
    /\ UNCHANGED <<method, upload, filename, artists_data, flashed, failed,
                   log, fs, hits, admitted, creds, calls, hourv>>

\* handle_uploaded_file saving the upload before it checks the extension
ValidateSavesFirst(r, uploads) ==
    /\ pc[r] = "index"
    /\ method[r] = "POST"
    /\ \E csv_file \in uploads :
          /\ upload' = [upload EXCEPT ![r] = csv_file]
          /\ \/ /\ ~csv_file.has_file \/ csv_file.filename = <<>>
                /\ Caught(r, "ValueError", MsgNoFile, "NoFileSelected")
                /\ UNCHANGED <<filename, fs, calls>>
             \/ /\ csv_file.has_file /\ csv_file.filename # <<>>
                /\ fs' = Written(secure_filename(csv_file.filename), r)
                /\ calls' = [calls EXCEPT ![r] =
                      Append(@, Call("save", secure_filename(csv_file.filename), <<>>))]
                /\ filename' = [filename EXCEPT ![r] = secure_filename(csv_file.filename)]
                /\ \/ /\ ~allowed_file(csv_file.filename)
                      /\ Caught(r, "ValueError", MsgInvalid, "UnsupportedExtension")
                   \/ /\ allowed_file(csv_file.filename)
                      /\ pc' = [pc EXCEPT ![r] = "main"]
                      /\ log' = [log EXCEPT ![r] = Append(@, "Validated") \o <<"Stored">>]
                      /\ UNCHANGED <<resp, flashed, failed>>
    /\ UNCHANGED <<method, artists_data, hits, admitted, creds, hourv>>

\* handle_uploaded_file, from request.files.get('file') to secure_filename;
\* csv_file is the file part the request carries.
Validate(r, uploads) ==
    /\ pc[r] = "index"
    /\ method[r] = "POST"
    /\ \E csv_file \in uploads :
          /\ upload' = [upload EXCEPT ![r] = csv_file]
          /\ \/ /\ ~csv_file.has_file \/ csv_file.filename = <<>>
                /\ Caught(r, "ValueError", MsgNoFile, "NoFileSelected")
                /\ UNCHANGED filename
             \/ /\ csv_file.has_file /\ csv_file.filename # <<>>
                /\ ~allowed_file(csv_file.filename)
                /\ Caught(r, "ValueError", MsgInvalid, "UnsupportedExtension")
                /\ UNCHANGED filename
             \/ /\ csv_file.has_file /\ csv_file.filename # <<>>
                /\ allowed_file(csv_file.filename)
                /\ filename' = [filename EXCEPT ![r] = secure_filename(csv_file.filename)]
                /\ pc' = [pc EXCEPT ![r] = "save"]
                /\ log' = [log EXCEPT ![r] = Append(@, "Validated")]
                /\ UNCHANGED <<resp, flashed, failed>>
    /\ UNCHANGED <<method, artists_data, fs, hits, admitted, creds, calls,
                   hourv>>

\* handle_uploaded_file calling main without saving the upload first
SaveSkipped(r) ==
    /\ pc[r] = "save"
    /\ pc' = [pc EXCEPT ![r] = "main"]
    /\ UNCHANGED <<method, upload, filename, artists_data, resp, flashed,
                   failed, log, fs, hits, admitted, creds, calls, hourv>>

\* csv_file.save(filename)
Save(r) ==
    /\ pc[r] = "save"
    /\ \/ /\ fs' = Written(filename[r], r)
          /\ pc' = [pc EXCEPT ![r] = "main"]
          /\ log' = [log EXCEPT ![r] = Append(@, "Stored")]
          /\ UNCHANGED <<resp, flashed, failed>>
       \/ \* the file cannot be opened for writing
          /\ Caught(r, "OSError", "cannot write", "StorageIOError")
          /\ UNCHANGED fs
    /\ calls' = [calls EXCEPT ![r] = Append(@, Call("save", filename[r], <<>>))]
    /\ UNCHANGED <<method, upload, filename, artists_data, hits, admitted,
                   creds, hourv>>

\* main called with the two credentials in the wrong order
MainSwapsCredentials(r) ==
    /\ pc[r] = "main"
    /\ \/ /\ artists_data' = [artists_data EXCEPT ![r] = TRUE]
          /\ pc' = [pc EXCEPT ![r] = "remove"]
          /\ log' = [log EXCEPT ![r] = Append(@, "Enriched")]
          /\ UNCHANGED <<resp, flashed, failed>>
       \/ /\ \E type \in MainRaises :
                Caught(r, type, MainErrText, "ProcessingError")
          /\ UNCHANGED artists_data
    /\ calls' = [calls EXCEPT ![r] =
                    Append(@, Call("main", filename[r], <<CLIENT_SECRET, CLIENT_ID>>))]
    /\ UNCHANGED <<method, upload, filename, fs, hits, admitted, creds, hourv>>

\* artists_data = main(filename, CLIENT_ID, CLIENT_SECRET)
Main(r) ==
    /\ pc[r] = "main"
    /\ \/ /\ artists_data' = [artists_data EXCEPT ![r] = TRUE]
          /\ pc' = [pc EXCEPT ![r] = "remove"]
          /\ log' = [log EXCEPT ![r] = Append(@, "Enriched")]
          /\ UNCHANGED <<resp, flashed, failed>>
       \/ /\ \E type \in MainRaises :
                Caught(r, type, MainErrText, "ProcessingError")
          /\ UNCHANGED artists_data
    /\ calls' = [calls EXCEPT ![r] =
                    Append(@, Call("main", filename[r], <<CLIENT_ID, CLIENT_SECRET>>))]
    /\ UNCHANGED <<method, upload, filename, fs, hits, admitted, creds, hourv>>

\* handle_uploaded_file returning the result and leaving the delete for later
RemoveDeferred(r) ==
    /\ pc[r] = "remove"
    /\ pc' = [pc EXCEPT ![r] = "render"]
    /\ calls' = [calls EXCEPT ![r] = Append(@, Call("remove", filename[r], <<>>))]
    /\ UNCHANGED <<method, upload, filename, artists_data, resp, flashed,
                   failed, log, fs, hits, admitted, creds, hourv>>

\* os.remove(filename); return artists_data
Remove(r) ==
    /\ pc[r] = "remove"
    /\ \/ /\ Exists(filename[r])
          /\ fs' = Removed(filename[r])
          /\ pc' = [pc EXCEPT ![r] = "render"]
          /\ UNCHANGED <<resp, flashed, failed, log>>
       \/ /\ ~Exists(filename[r])
          /\ Caught(r, "FileNotFoundError", "no such file", "StorageIOError")
          /\ UNCHANGED fs
       \/ \* the file is there but cannot be unlinked
          /\ Exists(filename[r])
          /\ Caught(r, "PermissionError", "permission denied", "StorageIOError")
          /\ UNCHANGED fs
    /\ calls' = [calls EXCEPT ![r] = Append(@, Call("remove", filename[r], <<>>))]
    /\ UNCHANGED <<method, upload, filename, artists_data, hits, admitted,
                   creds, hourv>>

\* return render_template('results.html', results=artists_data), inside the
\* try of index()
Render(r) ==
    /\ pc[r] = "render"
    /\ \/ /\ resp' = [resp EXCEPT ![r] = "results.html"]
          /\ pc' = [pc EXCEPT ![r] = "done"]
          /\ log' = [log EXCEPT ![r] = Append(@, "Rendered")]
          /\ UNCHANGED <<flashed, failed>>
       \/ \* the template cannot be rendered
          Caught(r, "TemplateError", "template error", "RenderingError")
    /\ UNCHANGED <<method, upload, filename, artists_data, fs, hits, admitted,
                   creds, calls, hourv>>

Next ==
    \/ \E r \in Req : Arrive(r, {"GET", "POST"})
    \/ \E r \in Req : Limit(r)
    \/ \E r \in Req : IndexGet(r)
    \/ \E r \in Req : Validate(r, Uploads)
    \/ \E r \in Req : Save(r)
    \/ \E r \in Req : Main(r)
    \/ \E r \in Req : Remove(r)
    \/ \E r \in Req : Render(r)
    \/ WindowExpires

Spec == Init /\ [][Next]_vars

\* Every request that has arrived is served to its end: the limiter answers
\* each request, each call of the handler returns or raises, and the minute
\* of the window passes.
Fairness ==
    /\ \A r \in ReqF :
          /\ SF_vars(Limit(r))
          /\ WF_vars(IndexGet(r))
          /\ WF_vars(Validate(r, Uploads))
          /\ WF_vars(Save(r))
          /\ WF_vars(Main(r))
          /\ WF_vars(Remove(r))
          /\ WF_vars(Render(r))
    /\ WF_vars(WindowExpires)

\* The steps of Next for the requests of ReqF.
NextF ==
    \/ \E r \in ReqF : Arrive(r, {"GET", "POST"})
    \/ \E r \in ReqF : Limit(r)
    \/ \E r \in ReqF : IndexGet(r)
    \/ \E r \in ReqF : Validate(r, Uploads)
    \/ \E r \in ReqF : Save(r)
    \/ \E r \in ReqF : Main(r)
    \/ \E r \in ReqF : Remove(r)
    \/ \E r \in ReqF : Render(r)
    \/ WindowExpires

SpecFair == Init /\ [][NextF]_vars /\ Fairness

\* One POST with any file name of at most MaxNameLen characters, followed up
\* to the end of its validation.
NextV ==
    \/ pc[1] = "idle" /\ Arrive(1, {"POST"})
    \/ Limit(1)
    \/ Validate(1, AllUploads)

SpecV == Init /\ [][NextV]_vars

\* One-minute windows in the hour of "50 per hour".
MinutesPerHour == 60

\* The limiter's check, with the admissions of the hour counted beside it.
LimitCounted(r) ==
    /\ hour_admitted < HourLimit + MaxOver
    /\ LimiterHit(r)
    /\ hour_admitted' = IF pc'[r] = "index" THEN hour_admitted + 1 ELSE hour_admitted
    /\ UNCHANGED hour_minutes

\* A one-minute window ends within the hour.
MinuteEnds ==
    /\ hour_minutes < MinutesPerHour - 1
    /\ WindowReset
    /\ hour_minutes' = hour_minutes + 1
    /\ UNCHANGED hour_admitted

\* The hour ends, and the running minute with it.
HourEnds ==
    /\ hour_admitted > 0
    /\ hour_admitted' = 0
    /\ hour_minutes' = 0
    /\ hits' = 0
    /\ admitted' = 0
    /\ UNCHANGED <<pc, method, upload, filename, artists_data, resp, flashed,
                   failed, log, fs, creds, calls>>

\* One client sending GET after GET to '/', minute after minute.
NextL ==
    \/ Arrive(1, {"GET"})
    \/ LimitCounted(1)
    \/ IndexGet(1)
    \/ MinuteEnds
    \/ HourEnds

SpecL == Init /\ [][NextL]_vars

\* ------------------------------------------------------------------ claims
Passed(r, stage) == \E i \in 1..Len(log[r]) : log[r][i] = stage

\* The request is a POST whose validation has run.
Decided(r) ==
    /\ method[r] = "POST"
    /\ Passed(r, "RateChecked")
    /\ pc[r] \in {"save", "main", "remove", "render", "done"}

\* C1: every POST that saved its upload leaves no file at the stored path
\* when it completes, whether main returned or raised.
C1_StoredFileRemoved ==
    \A r \in Req :
        (pc[r] = "done" /\ Passed(r, "Stored")) => ~Exists(filename[r])

\* r has saved its upload and not yet deleted it, and the file is still its own.
Live(r) ==
    /\ pc[r] \in {"main", "remove"}
    /\ Exists(filename[r])
    /\ fs[filename[r]] = r

\* C2: of two requests in flight with the same original file name, neither
\* overwrites nor deletes the file the other has saved and not yet deleted:
\* a step of one leaves the live file of the other in place.
C2_NoCrossRequestClobber ==
    [][\A r, q \in Req :
          (r # q /\ Live(r) /\ upload[q] = upload[r] /\ pc'[q] # pc[q])
              => (filename[r] \in DOMAIN fs' /\ fs'[filename[r]] = r)]_vars

\* C3: whatever main raises, the user sees exactly the generic message and
\* never the text of the error.
C3_MainErrorsGeneric ==
    \A r \in Req :
        (pc[r] = "done" /\ failed[r] = "ProcessingError")
            => (flashed[r] = MsgGeneric /\ flashed[r] # MainErrText)

\* C4: once RouteLimit requests have been admitted in a window, the next
\* request to pass the limiter in that window is denied as rate-limited,
\* whatever became of the admitted ones.
C4_NextAfterKDenied ==
    [][\A r \in Req :
          (admitted = RouteLimit /\ pc[r] = "gate" /\ pc'[r] # "gate")
              => (pc'[r] = "done" /\ failed'[r] = "RateLimited"
                  /\ resp'[r] = "429")]_vars

\* A request denied in a full window while another request of that window
\* ended in a validation failure and the window counts RouteLimit admissions.
C4_Witness ==
    \E r, q \in Req :
        /\ pc[r] = "done" /\ failed[r] = "RateLimited"
        /\ admitted = RouteLimit
        /\ pc[q] = "done" /\ failed[q] \in {"NoFileSelected", "UnsupportedExtension"}

\* The name ends in '.' followed by csv in any case: its last '.'-delimited
\* segment, lower-cased, is csv.
EndsInDotCsv(n) ==
    /\ Len(n) >= 4
    /\ n[Len(n) - 3] = "."
    /\ n[Len(n) - 2] \in {"c", "C"}
    /\ n[Len(n) - 1] \in {"s", "S"}
    /\ n[Len(n)] \in {"v", "V"}

\* C5 as stated: every submitted file name without '.' or with an extension
\* other than csv fails validation with UnsupportedExtension and its message;
\* every name whose last segment is csv in any case is accepted.
C5_ExtensionDecides ==
    \A r \in Req :
        (Decided(r) /\ upload[r].has_file) =>
            IF EndsInDotCsv(upload[r].filename)
            THEN Passed(r, "Validated")
            ELSE /\ pc[r] = "done"
                 /\ failed[r] = "UnsupportedExtension"
                 /\ flashed[r] = MsgInvalid

\* C5 as amended: the same for every non-empty submitted file name (the empty
\* name is the no-file-selected case).
C5_ExtensionDecidesNonEmpty ==
    \A r \in Req :
        (Decided(r) /\ upload[r].has_file /\ upload[r].filename # <<>>) =>
            IF EndsInDotCsv(upload[r].filename)
            THEN Passed(r, "Validated")
            ELSE /\ pc[r] = "done"
                 /\ failed[r] = "UnsupportedExtension"
                 /\ flashed[r] = MsgInvalid

\* A name with an upper-case extension has been accepted.
C5_Witness ==
    \E r \in Req :
        /\ Decided(r)
        /\ upload[r] = FilePart(<<"c", ".", "C", "s", "v">>)
        /\ Passed(r, "Validated")

\* C6: a POST without file part, or with an empty file name, fails validation
\* with NoFileSelected and the message "No file selected".
C6_NoFileSelected ==
    \A r \in Req :
        (Decided(r) /\ (~upload[r].has_file \/ upload[r].filename = <<>>)) =>
            /\ pc[r] = "done"
            /\ failed[r] = "NoFileSelected"
            /\ flashed[r] = "No file selected"
            /\ resp[r] = "redirect"

\* Both shapes have been submitted and rejected.
C6_Witness ==
    \E r, q \in Req :
        /\ Decided(r) /\ ~upload[r].has_file /\ failed[r] = "NoFileSelected"
        /\ Decided(q) /\ upload[q] = FilePart(<<>>) /\ failed[q] = "NoFileSelected"

\* C7 as stated: every failed end of a request, of every kind, is a redirect
\* to the form with a message.
C7_EveryFailureRedirects ==
    \A r \in Req :
        (pc[r] = "done" /\ failed[r] # "none")
            => (resp[r] = "redirect" /\ flashed[r] # "")

\* C7 as amended: a validation, storage or processing failure is a redirect
\* with a flashed message (the validator's reason, the generic message, and
\* for a processing failure the generic message or the text of a ValueError);
\* a rate-limit denial is a 429 response without a flashed message.
C7_FailureResponses ==
    \A r \in Req :
        pc[r] = "done" =>
            /\ failed[r] = "NoFileSelected"
                  => (resp[r] = "redirect" /\ flashed[r] = MsgNoFile)
            /\ failed[r] = "UnsupportedExtension"
                  => (resp[r] = "redirect" /\ flashed[r] = MsgInvalid)
            /\ failed[r] = "StorageIOError"
                  => (resp[r] = "redirect" /\ flashed[r] = MsgGeneric)
            /\ failed[r] = "ProcessingError"
                  => (resp[r] = "redirect" /\ flashed[r] \in {MsgGeneric, MainErrText})
            /\ failed[r] = "RateLimited"
                  => (resp[r] = "429" /\ flashed[r] = "")
            /\ failed[r] = "none"
                  => (resp[r] \in {"index.html", "results.html"} /\ flashed[r] = "")

\* A request denied by the limiter next to one that failed in storage.
C7_Witness ==
    \E r, q \in Req :
        /\ pc[r] = "done" /\ failed[r] = "RateLimited"
        /\ pc[q] = "done" /\ failed[q] = "StorageIOError"

\* C8: a request whose enrichment call returned ends with the results
\* rendered, also when the delete of its file fails (a failure of the
\* rendering itself set aside).
C8_DeleteFailureKeepsResult ==
    \A r \in Req :
        (pc[r] = "done" /\ artists_data[r] /\ failed[r] # "RenderingError")
            => (resp[r] = "results.html" /\ failed[r] = "none")

Order == <<"RateChecked", "Validated", "Stored", "Enriched", "Rendered">>

\* The stages a request has passed, without the closing "Failed".
Stages(r) ==
    IF log[r] # <<>> /\ log[r][Len(log[r])] = "Failed"
    THEN SubSeq(log[r], 1, Len(log[r]) - 1)
    ELSE log[r]

IsPrefix(s, t) == Len(s) <= Len(t) /\ \A i \in 1..Len(s) : s[i] = t[i]

\* C10: the stages of a request follow the order RateChecked, Validated,
\* Stored, Enriched, Rendered: the body of index runs only once the limiter
\* has admitted the request, the file is saved only after validation, main is
\* called only after the save, and its result exists only after the save.
C10_StageOrder ==
    \A r \in Req :
        /\ IsPrefix(Stages(r), Order)
        /\ pc[r] = "index" => Passed(r, "RateChecked")
        /\ pc[r] = "save" => Passed(r, "Validated")
        /\ pc[r] = "main" => Passed(r, "Stored")
        /\ pc[r] \in {"remove", "render"} => Passed(r, "Enriched")
        /\ artists_data[r] => Passed(r, "Stored")
        /\ resp[r] = "results.html" => Stages(r) = Order

\* A request has gone through every stage.
C10_Witness == \E r \in Req : pc[r] = "done" /\ log[r] = Order

\* The request has made a call of this operation.
Called(r, op) == \E i \in 1..Len(calls[r]) : calls[r][i].op = op

\* C11: a request writes and deletes only a path of its own: its save never
\* lands on a file that is already there, and its delete removes only the
\* file that it wrote itself.
C11_OnlyOwnPath ==
    [][\A r \in Req :
          /\ (pc[r] = "save" /\ pc'[r] = "main") => ~Exists(filename[r])
          /\ (pc[r] = "remove" /\ pc'[r] = "render") => fs[filename[r]] = r]_vars

\* C12: a request the limiter denies ends at once as RateLimited: the step
\* that denies it changes no file, and the denied request has read no
\* upload, run no validation and called neither save, main nor remove.
C12_DeniedTouchesNothing ==
    [][\A r \in Req :
          /\ (pc[r] = "gate" /\ failed'[r] = "RateLimited") => fs' = fs
          /\ failed'[r] = "RateLimited" =>
                /\ pc'[r] = "done"
                /\ calls'[r] = <<>>
                /\ log'[r] = <<"Failed">>
                /\ upload'[r] = NoFilePart
                /\ filename'[r] = <<>>
                /\ ~artists_data'[r]]_vars

\* A POST has been denied while files lie in the working directory.
C12_Witness ==
    \E r \in Req :
        /\ pc[r] = "done" /\ method[r] = "POST" /\ failed[r] = "RateLimited"
        /\ DOMAIN fs # {}

\* C15: removing a stored path that is already gone completes without error:
\* the request goes on to render its result and the files stay as they are.
C15_RemoveIdempotent ==
    [][\A r \in Req :
          (pc[r] = "remove" /\ ~Exists(filename[r]) /\ pc'[r] # "remove")
              => (pc'[r] = "render" /\ failed'[r] = "none" /\ fs' = fs)]_vars

\* C16: when a request comes to render its result, and ever after, it has
\* called os.remove and the file it saved is gone, whether the rendering
\* succeeds or fails.
C16_DeletedBeforeRender ==
    \A r \in Req :
        (pc[r] = "render" \/ resp[r] = "results.html" \/ failed[r] = "RenderingError")
            => /\ Called(r, "remove")
               /\ ~(Exists(filename[r]) /\ fs[filename[r]] = r)

\* A rendering has failed, and no file is left at the request's path.
C16_Witness ==
    \E r \in Req :
        pc[r] = "done" /\ failed[r] = "RenderingError" /\ ~Exists(filename[r])

\* C18: the credentials hold the values loaded at start, and every call of
\* main has received exactly that pair.
C18_CredentialsFixed ==
    /\ CLIENT_ID = EnvClientId
    /\ CLIENT_SECRET = EnvClientSecret
    /\ \A r \in Req : \A i \in 1..Len(calls[r]) :
          calls[r][i].op = "main"
              => calls[r][i].args = <<EnvClientId, EnvClientSecret>>

\* main has been called by one request while a GET of another has completed.
C18_Witness ==
    \E r, q \in Req :
        /\ r # q
        /\ Called(r, "main")
        /\ pc[q] = "done" /\ method[q] = "GET"

ValidationKinds == {"NoFileSelected", "UnsupportedExtension"}

\* C19: a POST that fails validation changes no file in any of its steps and
\* has called neither save, main nor remove.
C19_InvalidTouchesNothing ==
    [][\A r \in Req :
          /\ (pc[r] \in {"gate", "index"} /\ pc'[r] # pc[r]) => fs' = fs
          /\ failed'[r] \in ValidationKinds =>
                /\ pc'[r] = "done"
                /\ calls'[r] = <<>>
                /\ ~artists_data'[r]]_vars

\* A POST has failed validation while files lie in the working directory.
C19_Witness ==
    \E r \in Req :
        /\ pc[r] = "done" /\ failed[r] \in ValidationKinds
        /\ DOMAIN fs # {}

\* C20: no step of a GET changes a file or calls save, main or remove; its
\* pass through the limiter counts one request in the window, and it is
\* admitted or denied by the same budget as a POST.
C20_GetCountsTouchesNothing ==
    [][\A r \in Req :
          (method[r] = "GET" /\ pc[r] \in {"gate", "index"} /\ pc'[r] # pc[r]) =>
              /\ fs' = fs
              /\ calls'[r] = <<>>
              /\ ~artists_data'[r]
              /\ pc[r] = "gate" =>
                    /\ hits' = hits + 1
                    /\ IF hits < RouteLimit
                       THEN pc'[r] = "index" /\ admitted' = admitted + 1
                       ELSE pc'[r] = "done" /\ failed'[r] = "RateLimited"]_vars

\* A GET has been denied: GETs and POSTs have used up the window together.
C20_Witness ==
    \E r, q \in Req :
        /\ pc[r] = "done" /\ method[r] = "GET" /\ failed[r] = "RateLimited"
        /\ pc[q] = "done" /\ method[q] = "GET" /\ resp[q] = "index.html"

Responses == {"index.html", "results.html", "redirect", "429"}

\* C17: every request that has arrived comes to its end with a response, and
\* a request whose save, main or remove call raised ends with the redirect of
\* index(): the error does not leave the view.
C17_EveryRequestAnswered ==
    /\ \A r \in Req :
          (pc[r] = "gate") ~> (pc[r] = "done" /\ resp[r] \in Responses)
    /\ [](\A r \in Req :
            /\ pc[r] \in {"idle", "gate", "index", "save", "main", "remove",
                           "render", "done"}
            /\ (pc[r] = "done" /\ failed[r] \in {"StorageIOError", "ProcessingError"})
                  => resp[r] = "redirect")

\* A request has ended with the redirect after its os.remove raised.
C17_Witness ==
    \E r \in Req :
        /\ pc[r] = "done" /\ failed[r] = "StorageIOError" /\ Called(r, "remove")
        /\ resp[r] = "redirect"

\* C13: the budgets of the day, the hour and the minute all gate '/': a
\* request that would exceed any of them is denied.  Stated of the hour: no
\* more than 50 requests are admitted within one hour.
C13_AllBudgetsApply == hour_admitted <= HourLimit

====
